---- MODULE Spec2Model ----
(***************************************************************************)
(* Bollinger-band backtest of playground.py: one call of backtest_year.    *)
(* For every CSV file the year-filtered frame is band-annotated and        *)
(* scanned by find_signals; the candidate trades of all files are sorted   *)
(* and executed greedily with one compounding capital pool.                *)
(* multi_year_backtest calls backtest_year once per year and compounds the *)
(* returned gains.                                                         *)
(*                                                                         *)
(* Three specifications share the actions and differ in what is run and    *)
(* on which inputs: Spec is one call of backtest_year on a directory of    *)
(* two files, SpecFrame one call on a directory of one file whose rows     *)
(* take more band values, SpecYears a run of multi_year_backtest.          *)
(*                                                                         *)
(* Dates are day numbers within the year (1 = Jan 1).  Floats are modelled *)
(* as exact rationals <<numerator, denominator>> in lowest terms with a    *)
(* positive denominator; rounding of IEEE doubles is not modelled.         *)
(* The rows of a frame are drawn when the scan reads them.                 *)
(***************************************************************************)
EXTENDS Integers, Sequences, FiniteSets

VARIABLES
    pc,                  \* position in backtest_year
    files,               \* CSV files glob.glob has still to yield
    ticker,              \* ticker of the file being processed
    df_len,              \* len(df) of the frame handed to find_signals
    rows_read,           \* rows handed to find_signals so far, over all files
    i,                   \* find_signals: loop index
    today,               \* find_signals: df.index[i] of the last row read
    price, vol, sma, lower, below,   \* find_signals: the last row read
    in_position, entry_date, entry_price,  \* find_signals: position state
    entry_below,         \* df["%Below_Lower"] at row entry_date
    trades,              \* find_signals: the trades list
    all_signals,         \* backtest_year: all_signals
    df_map,              \* backtest_year: keys of df_map
    capital, executed_trades, next_available_date,
    k,                   \* scheduler loop: index of the next candidate
    plots,               \* charts plot_chart has saved
    csv_saved,           \* <year>_perf.csv has been written
    compound_return,     \* value returned by backtest_year
    year_rows,           \* backtest_year: len(df) of the year-filtered frame
    zero_std,            \* STD was 0 on every row scanned in this call
    mode,                \* which of the three runs this is
    years_left,          \* multi_year_backtest: years still to iterate
    year,                \* multi_year_backtest: the loop variable
    comp_factor,         \* multi_year_backtest: comp_factor
    results              \* results.txt: <<year, gain>> per finished year

vars == << pc, files, ticker, df_len, rows_read, i, today, price, vol, sma,
           lower, below, in_position, entry_date, entry_price, entry_below,
           trades, all_signals, df_map, capital, executed_trades,
           next_available_date, k, plots, csv_saved, compound_return,
           year_rows, zero_std, mode, years_left, year, comp_factor,
           results >>

(***************************************************************************)
(* Strategy parameters                                                     *)
(***************************************************************************)
period == 20
std_factor == 2
max_hold_days == 30
min_volume == 100000
deviation_threshold == << 1, 50 >>      \* 0.02
initial_capital == 10000

(***************************************************************************)
(* Bounds and input sets                                                   *)
(***************************************************************************)
MaxRows == 6                             \* rows scanned over all files
MaxFrameRows == 4                        \* the same, in SpecFrame
MaxYearRows == 2                         \* the same per year, in SpecYears
NumYears == 2                            \* years iterated in SpecYears
Tickers == { "AAA", "BBB" }
Closes == { 100, 110 }
SMAs == { 96, 112 }
STDs == { 4 }
FrameSMAs == { 96, 110, 112, 122 }       \* SpecFrame, SpecYears
FrameSTDs == { 0, 4 }                    \* SpecFrame, SpecYears
Volumes == { 100000, 200000 }
Gaps == { 1, 30 }                        \* days between consecutive rows

None == 0                                \* Python None for dates and prices
NoFloat == << 0, 0 >>                    \* a float variable not yet assigned

(***************************************************************************)
(* Float arithmetic, as exact rationals                                    *)
(***************************************************************************)
Abs(x) == IF x < 0 THEN -x ELSE x

RECURSIVE GCD(_, _)
GCD(a, b) == IF b = 0 THEN a ELSE GCD(b, a % b)

Norm(n, d) == LET g == GCD(Abs(n), d) IN << n \div g, d \div g >>

Float(n) == << n, 1 >>

RatLess(a, b) == a[1] * b[2] < b[1] * a[2]

RatNeg(a) == << -a[1], a[2] >>

RatSub(a, b) == Norm(a[1] * b[2] - b[1] * a[2], a[2] * b[2])

RatDivInt(a, p) == LET g == GCD(Abs(a[1]), p) IN
                   IF a[1] = 0 THEN << 0, 1 >>
                   ELSE Norm(a[1] \div g, a[2] * (p \div g))

RatMulInt(a, p) == LET g == GCD(a[2], p) IN Norm(a[1] * (p \div g), a[2] \div g)

RatAdd(a, b) == Norm(a[1] * b[2] + b[1] * a[2], a[2] * b[2])

RatMul(a, b) ==
    LET g == GCD(Abs(a[1]), b[2])
        h == GCD(Abs(b[1]), a[2])
    IN  Norm((a[1] \div g) * (b[1] \div h), (a[2] \div h) * (b[2] \div g))

(***************************************************************************)
(* calculate_bands                                                         *)
(***************************************************************************)
\* A 20-row window whose mean is m and whose sample deviation is s can end in
\* the close c only if period * (c - m)^2 <= (period - 1)^2 * s^2.
RollingFits(c, m, s) ==
    period * (c - m) * (c - m) <= (period - 1) * (period - 1) * s * s

Lower(m, s) == m - std_factor * s

BelowLower(lo, c) == Norm(lo - c, c)

\* mutant: the row that completes the first window is dropped as well
BandedLen_short(n) == n - period

\* len(df) after calculate_bands(df).dropna(), for n rows in the year
BandedLen(n) == n - (period - 1)

(***************************************************************************)
(* find_signals                                                            *)
(***************************************************************************)
\* mutant: a deviation equal to the threshold opens a position
EntrySignal_atleast(p, lo, b, v) ==
    /\ p < lo
    /\ ~RatLess(b, deviation_threshold)
    /\ v > min_volume

\* mutant: the volume alone opens a position
EntrySignal_volume(p, lo, b, v) == v > min_volume

EntrySignal(p, lo, b, v) ==
    /\ p < lo
    /\ RatLess(deviation_threshold, b)
    /\ v > min_volume

DaysHeld(t, e) == t - e

\* mutant: a close equal to the SMA closes the position
ExitSignal_at_sma(p, m, held) == p >= m \/ held >= max_hold_days

\* mutant: the position is held one bar past the limit
ExitSignal_late(p, m, held) == p > m \/ held > max_hold_days

ExitSignal(p, m, held) == p > m \/ held >= max_hold_days

Trade(e_date, e_price, t, p, b, held) ==
    [ buy_date |-> e_date, buy_price |-> e_price, sell_date |-> t,
      sell_price |-> p, below |-> b, days_held |-> held ]

\* mutant: an open position is closed on the last row
Returned_closed(ts, in_pos) ==
    IF in_pos
    THEN Append(ts, Trade(entry_date, entry_price, today, price, below,
                          DaysHeld(today, entry_date)))
    ELSE ts

\* the list find_signals returns when the loop ends
Returned(ts, in_pos) == ts

(***************************************************************************)
(* backtest_year                                                           *)
(***************************************************************************)
ProfitPct(bp, sp) == Norm((sp - bp) * 100, bp)

Signal(t, s) ==
    [ ticker |-> t, buy_date |-> s.buy_date, buy_price |-> s.buy_price,
      sell_date |-> s.sell_date, sell_price |-> s.sell_price,
      pct |-> ProfitPct(s.buy_price, s.sell_price),
      below |-> s.below, days_held |-> s.days_held ]

RECURSIVE Signals(_, _)
Signals(t, ts) ==
    IF ts = << >> THEN << >>
    ELSE << Signal(t, Head(ts)) >> \o Signals(t, Tail(ts))

\* mutant: the lower profit first
KeyLess_ascending(a, b) ==
    \/ a.buy_date < b.buy_date
    \/ /\ a.buy_date = b.buy_date
       /\ RatLess(a.pct, b.pct)

\* key=lambda x: (x[1], -x[5]), compared as Python compares tuples
KeyLess(a, b) ==
    \/ a.buy_date < b.buy_date
    \/ /\ a.buy_date = b.buy_date
       /\ RatLess(RatNeg(a.pct), RatNeg(b.pct))

\* x placed behind every element whose key is not greater than its own
Insert(s, x) ==
    LET later == { j \in 1..Len(s) : KeyLess(x, s[j]) }
        at == IF later = {} THEN Len(s) + 1
              ELSE CHOOSE j \in later : \A h \in later : j <= h
    IN  SubSeq(s, 1, at - 1) \o << x >> \o SubSeq(s, at, Len(s))

\* list.sort: stable
RECURSIVE SortSignals(_)
SortSignals(s) ==
    IF s = << >> THEN << >>
    ELSE Insert(SortSignals(SubSeq(s, 1, Len(s) - 1)), s[Len(s)])

\* mutant: Jan 1 of the following year
JanFirst_next == 365 + 1

JanFirst == 1

\* mutant: the sell day itself is refused
CanExecute_strict(buy_date, available) == buy_date > available

CanExecute(buy_date, available) == buy_date >= available

\* mutant: the two prices exchanged
Compound_inverse(cap, bp, sp) == RatMulInt(RatDivInt(cap, sp), bp)

\* shares = capital / buy_price; capital = shares * sell_price
Compound(cap, bp, sp) == RatMulInt(RatDivInt(cap, bp), sp)

\* mutant: the pool is released on the buy day
NextAvailable_buy(sig) == sig.buy_date

NextAvailable(sig) == sig.sell_date

\* one iteration of the scheduler loop on the pool st
Execute(st, sig) ==
    IF CanExecute(sig.buy_date, st.available)
    THEN [ capital |-> Compound(st.capital, sig.buy_price, sig.sell_price),
           executed |-> Append(st.executed, sig),
           available |-> NextAvailable(sig) ]
    ELSE st

CompoundReturn(cap) ==
    LET gain == RatSub(cap, Float(initial_capital))
    IN  RatMulInt(RatDivInt(gain, initial_capital), 100)

\* mutant: the closing row is tested for entry as well
AfterExit_reenter == EntrySignal(price', lower', below', vol')

\* mutant: the flag is not cleared
AfterExit_open == TRUE

\* in_position after a trade has been appended
AfterExit == FALSE

(***************************************************************************)
(* Initial state: the directory listing is an input                        *)
(***************************************************************************)
GlobOrders ==
    { f \in UNION { [1..n -> Tickers] : n \in 0..Cardinality(Tickers) } :
        \A a, b \in DOMAIN f : a # b => f[a] # f[b] }

\* len(df) of the year-filtered frame of one file
YearRows == (period - 1) .. (period - 1 + MaxRows)

Init ==
    /\ pc = "files"
    /\ files \in GlobOrders
    /\ ticker = ""
    /\ df_len = 0
    /\ rows_read = 0
    /\ i = 0
    /\ today = None
    /\ price = None /\ vol = None /\ sma = None /\ lower = None
    /\ below = NoFloat
    /\ in_position = FALSE
    /\ entry_date = None /\ entry_price = None
    /\ entry_below = NoFloat
    /\ trades = << >>
    /\ all_signals = << >>
    /\ df_map = {}
    /\ capital = NoFloat
    /\ executed_trades = << >>
    /\ next_available_date = None
    /\ k = 0
    /\ plots = {}
    /\ csv_saved = FALSE
    /\ compound_return = NoFloat
    /\ year_rows = 0
    /\ zero_std = TRUE
    /\ mode = "year"
    /\ years_left = << >>
    /\ year = None
    /\ comp_factor = NoFloat
    /\ results = << >>

\* the rows the model lets one call scan, and the band values of a row
RowLimit ==
    CASE mode = "year" -> MaxRows
      [] mode = "frame" -> MaxFrameRows
      [] mode = "years" -> MaxYearRows

Means == IF mode = "year" THEN SMAs ELSE FrameSMAs

Deviations == IF mode = "year" THEN STDs ELSE FrameSTDs

ScanVars == << i, today, price, vol, sma, lower, below, in_position,
               entry_date, entry_price, entry_below, trades >>

SchedVars == << capital, executed_trades, next_available_date, k, plots,
                csv_saved, compound_return >>

OuterVars == << mode, years_left, year, comp_factor, results >>

(***************************************************************************)
(* backtest_year, STEP 1: the loop over the CSV files                      *)
(***************************************************************************)
\* one file is read and filtered to the year; a short frame is skipped,
\* otherwise find_signals starts on the band-annotated frame.  dropna removes
\* the first rows of the year, taken here to be its first days, so the
\* first row scanned is dated by the number of rows removed plus a gap.
LoadFile ==
    /\ pc = "files"
    /\ files # << >>
    /\ \E n \in YearRows :
         /\ n >= period => BandedLen(n) <= RowLimit - rows_read
         /\ ticker' = Head(files)
         /\ files' = Tail(files)
         /\ year_rows' = n
         /\ IF n < period
            THEN UNCHANGED << pc, df_len, rows_read, ScanVars >>
            ELSE /\ pc' = "scan"
                 /\ df_len' = BandedLen(n)
                 /\ rows_read' = rows_read + BandedLen(n)
                 /\ i' = 0
                 /\ today' = n - BandedLen(n)
                 /\ trades' = << >>
                 /\ in_position' = FALSE
                 /\ entry_date' = None
                 /\ entry_price' = None
                 /\ entry_below' = NoFloat
                 /\ UNCHANGED << price, vol, sma, lower, below >>
    /\ UNCHANGED << all_signals, df_map, SchedVars, zero_std, OuterVars >>

\* find_signals: one iteration of the loop over the rows
ScanRow ==
    /\ pc = "scan"
    /\ i < df_len
    /\ \E g \in Gaps, c \in Closes, m \in Means, s \in Deviations,
          v \in Volumes :
         /\ RollingFits(c, m, s)
         /\ zero_std' = (zero_std /\ s = 0)
         /\ LET t == today + g
                lo == Lower(m, s)
                b == BelowLower(lo, c)
                held == DaysHeld(t, entry_date)
            IN  /\ today' = t
                /\ price' = c
                /\ vol' = v
                /\ sma' = m
                /\ lower' = lo
                /\ below' = b
                /\ IF ~in_position
                   THEN IF EntrySignal(c, lo, b, v)
                        THEN /\ in_position' = TRUE
                             /\ entry_date' = t
                             /\ entry_price' = c
                             /\ entry_below' = b
                             /\ UNCHANGED trades
                        ELSE UNCHANGED << in_position, entry_date,
                                          entry_price, entry_below, trades >>
                   ELSE IF ExitSignal(c, m, held)
                        THEN /\ trades' = Append(trades,
                                    Trade(entry_date, entry_price, t, c, b, held))
                             /\ in_position' = AfterExit
                             /\ UNCHANGED << entry_date, entry_price,
                                             entry_below >>
                        ELSE UNCHANGED << in_position, entry_date,
                                          entry_price, entry_below, trades >>
    /\ i' = i + 1
    /\ UNCHANGED << pc, files, ticker, df_len, rows_read, all_signals, df_map,
                    SchedVars, year_rows, OuterVars >>

\* find_signals returns; its trades are appended to all_signals
ReturnSignals ==
    /\ pc = "scan"
    /\ i = df_len
    /\ LET signals == Returned(trades, in_position)
       IN  IF signals = << >>
           THEN UNCHANGED << all_signals, df_map >>
           ELSE /\ df_map' = df_map \cup { ticker }
                /\ all_signals' = all_signals \o Signals(ticker, signals)
    /\ pc' = "files"
    /\ df_len' = 0
    /\ i' = 0
    /\ today' = None
    /\ price' = None /\ vol' = None /\ sma' = None /\ lower' = None
    /\ below' = NoFloat
    /\ in_position' = FALSE
    /\ entry_date' = None /\ entry_price' = None
    /\ entry_below' = NoFloat
    /\ trades' = << >>
    /\ year_rows' = 0
    /\ UNCHANGED << files, ticker, rows_read, SchedVars, zero_std, OuterVars >>

(***************************************************************************)
(* backtest_year, STEPS 2 to 5                                             *)
(***************************************************************************)
\* mutant: the early return hands back no number
NoSignals_none ==
    /\ pc = "files"
    /\ files = << >>
    /\ all_signals = << >>
    /\ compound_return' = NoFloat
    /\ pc' = "done"
    /\ UNCHANGED << files, ticker, df_len, rows_read, ScanVars, all_signals,
                    df_map, capital, executed_trades, next_available_date, k,
                    plots, csv_saved, year_rows, zero_std, OuterVars >>

NoSignals ==
    /\ pc = "files"
    /\ files = << >>
    /\ all_signals = << >>
    /\ compound_return' = Float(0)
    /\ pc' = "done"
    /\ UNCHANGED << files, ticker, df_len, rows_read, ScanVars, all_signals,
                    df_map, capital, executed_trades, next_available_date, k,
                    plots, csv_saved, year_rows, zero_std, OuterVars >>

SortSignalsAndStart ==
    /\ pc = "files"
    /\ files = << >>
    /\ all_signals # << >>
    /\ all_signals' = SortSignals(all_signals)
    /\ capital' = Float(initial_capital)
    /\ executed_trades' = << >>
    /\ next_available_date' = JanFirst
    /\ k' = 1
    /\ pc' = "sched"
    /\ UNCHANGED << files, ticker, df_len, rows_read, ScanVars, df_map, plots,
                    csv_saved, compound_return, year_rows, zero_std,
                    OuterVars >>

\* one iteration of the scheduler loop; plot_chart may raise, which the
\* try/except swallows
ScheduleStep ==
    /\ pc = "sched"
    /\ k <= Len(all_signals)
    /\ LET sig == all_signals[k]
           st == Execute([ capital |-> capital, executed |-> executed_trades,
                           available |-> next_available_date ], sig)
       IN  /\ capital' = st.capital
           /\ executed_trades' = st.executed
           /\ next_available_date' = st.available
           /\ ticker' = sig.ticker
           /\ \E plot_ok \in BOOLEAN :
                plots' = IF /\ st.executed # executed_trades
                            /\ sig.ticker \in df_map
                            /\ plot_ok
                         THEN plots \cup { sig.ticker }
                         ELSE plots
    /\ k' = k + 1
    /\ UNCHANGED << pc, files, df_len, rows_read, ScanVars, all_signals,
                    df_map, csv_saved, compound_return, year_rows, zero_std,
                    OuterVars >>

\* the year's trades are written with to_csv, outside any try/except
SaveCsv ==
    /\ pc = "sched"
    /\ k > Len(all_signals)
    /\ \E write_ok \in BOOLEAN :
         IF executed_trades # << >>
         THEN IF write_ok
              THEN csv_saved' = TRUE /\ pc' = "return"
              ELSE csv_saved' = FALSE /\ pc' = "raised"
         ELSE csv_saved' = FALSE /\ pc' = "return"
    /\ UNCHANGED << files, ticker, df_len, rows_read, ScanVars, all_signals,
                    df_map, capital, executed_trades, next_available_date, k,
                    plots, compound_return, year_rows, zero_std, OuterVars >>

Return ==
    /\ pc = "return"
    /\ compound_return' = CompoundReturn(capital)
    /\ pc' = "done"
    /\ UNCHANGED << files, ticker, df_len, rows_read, ScanVars, all_signals,
                    df_map, capital, executed_trades, next_available_date, k,
                    plots, csv_saved, year_rows, zero_std, OuterVars >>

Next ==
    \/ LoadFile
    \/ ScanRow
    \/ ReturnSignals
    \/ NoSignals
    \/ SortSignalsAndStart
    \/ ScheduleStep
    \/ SaveCsv
    \/ Return

Spec == Init /\ [][Next]_vars

(***************************************************************************)
(* One call of backtest_year on a directory of one file                    *)
(***************************************************************************)
InitFrame ==
    /\ pc = "files"
    /\ files \in { f \in GlobOrders : Len(f) = 1 }
    /\ ticker = ""
    /\ df_len = 0
    /\ rows_read = 0
    /\ i = 0
    /\ today = None
    /\ price = None /\ vol = None /\ sma = None /\ lower = None
    /\ below = NoFloat
    /\ in_position = FALSE
    /\ entry_date = None /\ entry_price = None
    /\ entry_below = NoFloat
    /\ trades = << >>
    /\ all_signals = << >>
    /\ df_map = {}
    /\ capital = NoFloat
    /\ executed_trades = << >>
    /\ next_available_date = None
    /\ k = 0
    /\ plots = {}
    /\ csv_saved = FALSE
    /\ compound_return = NoFloat
    /\ year_rows = 0
    /\ zero_std = TRUE
    /\ mode = "frame"
    /\ years_left = << >>
    /\ year = None
    /\ comp_factor = NoFloat
    /\ results = << >>

SpecFrame == InitFrame /\ [][Next]_vars

(***************************************************************************)
(* multi_year_backtest                                                     *)
(***************************************************************************)
FirstYear == 2014

years_to_test == [ j \in 1..NumYears |-> FirstYear + j - 1 ]

\* s[::-1]
Reversed(s) == [ j \in 1..Len(s) |-> s[Len(s) + 1 - j] ]

\* mutant: the yearly gains are added up
CompoundYear_sum(factor, gain) == RatAdd(factor, RatDivInt(gain, 100))

\* comp_factor *= (1 + gain / 100)
CompoundYear(factor, gain) ==
    RatMul(factor, RatAdd(Float(1), RatDivInt(gain, 100)))

InitYears ==
    /\ pc = "years"
    /\ files = << >>
    /\ ticker = ""
    /\ df_len = 0
    /\ rows_read = 0
    /\ i = 0
    /\ today = None
    /\ price = None /\ vol = None /\ sma = None /\ lower = None
    /\ below = NoFloat
    /\ in_position = FALSE
    /\ entry_date = None /\ entry_price = None
    /\ entry_below = NoFloat
    /\ trades = << >>
    /\ all_signals = << >>
    /\ df_map = {}
    /\ capital = NoFloat
    /\ executed_trades = << >>
    /\ next_available_date = None
    /\ k = 0
    /\ plots = {}
    /\ csv_saved = FALSE
    /\ compound_return = NoFloat
    /\ year_rows = 0
    /\ zero_std = TRUE
    /\ mode = "years"
    /\ years_left = Reversed(years_to_test)
    /\ year = None
    /\ comp_factor = Float(1)
    /\ results = << >>

\* mutant: the candidate list and the frames outlive the call
CallYear_shared ==
    /\ pc = "years"
    /\ years_left # << >>
    /\ year' = Head(years_left)
    /\ years_left' = Tail(years_left)
    /\ files' \in GlobOrders
    /\ ticker' = ""
    /\ rows_read' = 0
    /\ year_rows' = 0
    /\ zero_std' = TRUE
    /\ capital' = NoFloat
    /\ executed_trades' = << >>
    /\ next_available_date' = None
    /\ k' = 0
    /\ compound_return' = NoFloat
    /\ pc' = "files"
    /\ UNCHANGED << all_signals, df_map, df_len, ScanVars, plots, csv_saved,
                    mode, comp_factor, results >>

\* the loop takes the next year and calls backtest_year, which starts with
\* an empty candidate list and no other local assigned
CallYear ==
    /\ pc = "years"
    /\ years_left # << >>
    /\ year' = Head(years_left)
    /\ years_left' = Tail(years_left)
    /\ files' \in GlobOrders
    /\ all_signals' = << >>
    /\ df_map' = {}
    /\ ticker' = ""
    /\ rows_read' = 0
    /\ year_rows' = 0
    /\ zero_std' = TRUE
    /\ capital' = NoFloat
    /\ executed_trades' = << >>
    /\ next_available_date' = None
    /\ k' = 0
    /\ compound_return' = NoFloat
    /\ pc' = "files"
    /\ UNCHANGED << df_len, ScanVars, plots, csv_saved, mode, comp_factor,
                    results >>

\* backtest_year has returned gain: the factor is compounded and the line of
\* the year is written
EndYear ==
    /\ pc = "done"
    /\ comp_factor' = CompoundYear(comp_factor, compound_return)
    /\ results' = Append(results, << year, compound_return >>)
    /\ pc' = "years"
    /\ UNCHANGED << files, ticker, df_len, rows_read, ScanVars, all_signals,
                    df_map, SchedVars, year_rows, zero_std, mode, years_left,
                    year >>

\* the loop is over and the final factor is written
Finish ==
    /\ pc = "years"
    /\ years_left = << >>
    /\ pc' = "finished"
    /\ UNCHANGED << files, ticker, df_len, rows_read, ScanVars, all_signals,
                    df_map, SchedVars, year_rows, zero_std, OuterVars >>

NextYears ==
    \/ CallYear
    \/ LoadFile
    \/ ScanRow
    \/ ReturnSignals
    \/ NoSignals
    \/ SortSignalsAndStart
    \/ ScheduleStep
    \/ SaveCsv
    \/ Return
    \/ EndYear
    \/ Finish

SpecYears == InitYears /\ [][NextYears]_vars

(***************************************************************************)
(* Properties of the scheduler loop                                        *)
(***************************************************************************)
Scheduled == pc \in { "sched", "return", "done", "raised" }

Overlap(x, y) == x.buy_date < y.sell_date /\ y.buy_date < x.sell_date

IsExecuted(sig) == \E j \in 1..Len(executed_trades) : executed_trades[j] = sig

\* C1: no two executed trades overlap in [buy_date, sell_date), and the
\* executed trades are in ascending buy_date order.
C1_ExecutedNonOverlapping ==
    \A a, b \in 1..Len(executed_trades) :
        a < b => /\ ~Overlap(executed_trades[a], executed_trades[b])
                 /\ executed_trades[a].buy_date <= executed_trades[b].buy_date

\* two trades were executed around a candidate that was skipped
C1_Witness ==
    /\ pc = "done"
    /\ Len(executed_trades) >= 2
    /\ \E j \in 1..Len(all_signals) :
         /\ ~IsExecuted(all_signals[j])
         /\ Overlap(all_signals[j], executed_trades[1])

\* C2: in every iteration of the scheduler loop the candidate is executed if
\* and only if its buy_date >= next_available_date, which starts at Jan 1 and
\* becomes the sell_date of the trade just executed; a candidate is looked at
\* once, so one that was skipped is never executed later.
C2_ExecutedIffAvailable ==
    [][ /\ (pc # "sched" /\ pc' = "sched") =>
              /\ next_available_date' = 1
              /\ executed_trades' = << >>
              /\ k' = 1
        /\ (pc = "sched" /\ k <= Len(all_signals)) =>
              /\ k' = k + 1
              /\ all_signals' = all_signals
              /\ IF all_signals[k].buy_date >= next_available_date
                 THEN /\ executed_trades' =
                            Append(executed_trades, all_signals[k])
                      /\ next_available_date' = all_signals[k].sell_date
                 ELSE /\ executed_trades' = executed_trades
                      /\ next_available_date' = next_available_date
        /\ (pc = "sched" /\ k > Len(all_signals)) =>
              executed_trades' = executed_trades
      ]_vars

\* a trade was bought on the day the previous one was sold
C2_Witness ==
    /\ pc = "done"
    /\ \E j \in 1..(Len(executed_trades) - 1) :
         executed_trades[j + 1].buy_date = executed_trades[j].sell_date

(***************************************************************************)
(* The scheduler loop as a function of the sorted list, and the lists that *)
(* other directory orders of the same files would have produced            *)
(***************************************************************************)
RECURSIVE RunSchedule(_, _)
RunSchedule(st, sigs) ==
    IF sigs = << >> THEN st
    ELSE RunSchedule(Execute(st, Head(sigs)), Tail(sigs))

StartPool ==
    [ capital |-> Float(initial_capital), executed |-> << >>,
      available |-> JanFirst ]

OfTicker(sigs, t) == SelectSeq(sigs, LAMBDA s : s.ticker = t)

RECURSIVE Arrival(_, _)
Arrival(order, sigs) ==
    IF order = << >> THEN << >>
    ELSE OfTicker(sigs, Head(order)) \o Arrival(Tail(order), sigs)

TickerOrders == { f \in [1..Cardinality(Tickers) -> Tickers] :
                    \A a, b \in DOMAIN f : a # b => f[a] # f[b] }

\* C3: the executed sequence and the final capital are the same for every
\* order in which the files, and so the candidates, arrive.
C3_ArrivalOrderIrrelevant ==
    pc = "done" =>
        \A order \in TickerOrders :
            LET other == RunSchedule(StartPool,
                             SortSignals(Arrival(order, all_signals)))
            IN  /\ other.executed = executed_trades
                /\ all_signals # << >> => other.capital = capital

(***************************************************************************)
(* Properties of find_signals                                              *)
(***************************************************************************)
Last(s) == s[Len(s)]

\* the row just read closed a position
JustClosed ==
    /\ pc = "scan"
    /\ trades # << >>
    /\ ~in_position
    /\ Last(trades).sell_date = today

\* C4 as stated: a position that closes with no close above the SMA since
\* entry closes exactly max_hold_days days after its entry.
C4_ClosesExactlyAtMaxHold ==
    (JustClosed /\ price <= sma) => Last(trades).days_held = max_hold_days

\* C4 amended: such a position closes at the first row that is at least
\* max_hold_days days after the entry: no row read while the position stays
\* open is that late, and the closing row is.
C4_ClosesAtFirstRowPastMaxHold ==
    /\ (pc = "scan" /\ in_position) =>
           DaysHeld(today, entry_date) < max_hold_days
    /\ (JustClosed /\ price <= sma) =>
           /\ Last(trades).days_held >= max_hold_days
           /\ Last(trades).days_held = DaysHeld(today, Last(trades).buy_date)

\* a position closed by the day limit alone, later than max_hold_days
C4_Witness ==
    /\ JustClosed
    /\ price <= sma
    /\ Last(trades).days_held > max_hold_days

\* C5: of two candidates of different instruments with the same buy_date the
\* one with the higher profit is earlier in the sorted list, and if it is
\* executed the other one, bought before its sell_date, is not.
C5_HigherProfitFirst ==
    Scheduled =>
        \A a, b \in 1..Len(all_signals) :
            ( /\ all_signals[a].ticker # all_signals[b].ticker
              /\ all_signals[a].buy_date = all_signals[b].buy_date
              /\ RatLess(all_signals[b].pct, all_signals[a].pct) )
            => /\ a < b
               /\ ( /\ IsExecuted(all_signals[a])
                    /\ all_signals[b].buy_date < all_signals[a].sell_date )
                  => ~IsExecuted(all_signals[b])

\* the higher-profit candidate of a same-day pair was executed and the loop
\* has passed the other one
C5_Witness ==
    /\ pc = "done"
    /\ \E a, b \in 1..Len(all_signals) :
         /\ all_signals[a].ticker # all_signals[b].ticker
         /\ all_signals[a].buy_date = all_signals[b].buy_date
         /\ RatLess(all_signals[b].pct, all_signals[a].pct)
         /\ IsExecuted(all_signals[a])
         /\ ~IsExecuted(all_signals[b])

\* C6: the trades of one scan never overlap in [buy_date, sell_date) and are
\* in chronological order of buy_date.
C6_TradesNonOverlapping ==
    \A a, b \in 1..Len(trades) :
        a < b => /\ ~Overlap(trades[a], trades[b])
                 /\ trades[a].buy_date < trades[b].buy_date

\* one scan has emitted two trades
C6_Witness == pc = "scan" /\ Len(trades) >= 2 /\ i = df_len

\* C7: a trade is appended exactly when a row closes the position, and when
\* the scan returns it hands over the trades appended so far and nothing for
\* a position that is still open.
C7_OpenPositionDiscarded ==
    [][ /\ (pc = "scan" /\ pc' = "scan") =>
              /\ (trades' # trades) <=> (in_position /\ ~in_position')
              /\ (trades' # trades) =>
                    /\ Len(trades') = Len(trades) + 1
                    /\ SubSeq(trades', 1, Len(trades)) = trades
                    /\ Last(trades').sell_date = today'
        /\ (pc = "scan" /\ pc' = "files") =>
              /\ Len(all_signals') = Len(all_signals) + Len(trades)
              /\ \A j \in 1..Len(trades) :
                    /\ all_signals'[Len(all_signals) + j].buy_date =
                           trades[j].buy_date
                    /\ all_signals'[Len(all_signals) + j].sell_date =
                           trades[j].sell_date
      ]_vars

\* the rows of a frame end while a position is open, after one round trip
C7_Witness ==
    /\ pc = "scan"
    /\ i = df_len
    /\ in_position
    /\ trades # << >>

(***************************************************************************)
(* Properties of the capital pool and of the outputs                       *)
(***************************************************************************)
\* the product of sell_price / buy_price over a list of trades
RECURSIVE Growth(_)
Growth(ts) ==
    IF ts = << >> THEN Float(1)
    ELSE RatMul(Growth(SubSeq(ts, 1, Len(ts) - 1)),
                Norm(Last(ts).sell_price, Last(ts).buy_price))

\* C8: the capital is initial_capital times sell_price / buy_price of exactly
\* the executed trades, the returned value is (capital - initial_capital) /
\* initial_capital * 100, and one executed trade 100 -> 110 gives 11000 and
\* 10.0.
C8_CapitalCompounds ==
    /\ (Scheduled /\ all_signals # << >>) =>
           capital = RatMul(Float(initial_capital), Growth(executed_trades))
    /\ (pc = "done" /\ all_signals # << >>) =>
           compound_return[1] * capital[2] * initial_capital =
               compound_return[2]
                   * (capital[1] - initial_capital * capital[2]) * 100
    /\ ( /\ Scheduled
         /\ Len(executed_trades) = 1
         /\ executed_trades[1].buy_price = 100
         /\ executed_trades[1].sell_price = 110 )
       => /\ capital = << 11000, 1 >>
          /\ pc = "done" => compound_return = << 10, 1 >>

\* one trade 100 -> 110 was executed and another candidate skipped
C8_Witness ==
    /\ pc = "done"
    /\ Len(executed_trades) = 1
    /\ Len(all_signals) > 1
    /\ executed_trades[1].buy_price = 100
    /\ executed_trades[1].sell_price = 110
    /\ compound_return = << 10, 1 >>

\* C9: the deviation stored in a trade is %Below_Lower of its entry row, next
\* to the date and the close of that row.
C9_DeviationOfEntryRow ==
    (JustClosed /\ Last(trades).buy_date = entry_date) =>
        /\ Last(trades).buy_price = entry_price
        /\ Last(trades).below = entry_below

\* C10: no failure of charting or of writing the year's file keeps
\* backtest_year from returning its result.
C10_OutputFailureNeverAborts ==
    /\ pc # "raised"
    /\ pc = "done" =>
           executed_trades =
               RunSchedule(StartPool, all_signals).executed

(***************************************************************************)
(* Properties of a period without candidates                               *)
(***************************************************************************)
\* C11: a call in which no file yields a candidate, also when every file has
\* fewer than period rows in the year and is skipped, returns 0 with no
\* executed trade, no capital pool and nothing written, and never raises.
C11_NoCandidatesReturnsZero ==
    /\ (year_rows # 0 /\ year_rows < period) => (pc # "scan" /\ df_len = 0)
    /\ all_signals = << >> => pc \in { "files", "scan", "done" }
    /\ (rows_read = 0 /\ pc # "files") => all_signals = << >>
    /\ (pc = "done" /\ all_signals = << >>) =>
           /\ compound_return = << 0, 1 >>
           /\ executed_trades = << >>
           /\ capital = NoFloat
           /\ plots = {}
           /\ ~csv_saved

\* every file of the directory was too short for the bands
C11_Witness ==
    /\ pc = "done"
    /\ ticker # ""
    /\ rows_read = 0
    /\ year_rows = period - 1
    /\ compound_return = << 0, 1 >>

(***************************************************************************)
(* Properties of multi_year_backtest                                       *)
(***************************************************************************)
\* the years whose line has been written to results.txt
YearsDone == { results[j][1] : j \in 1..Len(results) }

\* the run has stopped: the loop is over, or an exception has left it
Stopped == pc \in { "finished", "raised" }

\* C12: every year of years_to_test is processed exactly once and the run
\* reaches its final growth factor, whatever a year does; a year that
\* returns 0 leaves the growth factor as it was.
C12_EveryYearProcessedOnce ==
    /\ \A a, b \in 1..Len(results) : a # b => results[a][1] # results[b][1]
    /\ comp_factor # NoFloat => CompoundYear(comp_factor, Float(0)) = comp_factor
    /\ Stopped =>
          /\ pc = "finished"
          /\ YearsDone = { years_to_test[j] : j \in 1..NumYears }

\* the gains written so far, in the order the years were processed
Gains == [ j \in 1..Len(results) |-> results[j][2] ]

\* the product of (1 + g / 100) over a list of gains, taken from its end
RECURSIVE Factor(_)
Factor(gs) ==
    IF gs = << >> THEN Float(1)
    ELSE RatMul(RatAdd(Float(1), RatDivInt(Head(gs), 100)), Factor(Tail(gs)))

\* C13: the growth factor starts at 1 and is the product of (1 + gain / 100)
\* over the years processed, over all years when the loop is over; the
\* product is the same with the years taken in the opposite order, and the
\* gains +10 and -10 give 0.99 in either order.
C13_FactorIsOrderFreeProduct ==
    /\ (mode = "years" /\ results = << >>) => comp_factor = Float(1)
    /\ mode = "years" =>
          /\ comp_factor = Factor(Gains)
          /\ comp_factor = Factor(Reversed(Gains))
    /\ pc = "finished" => Len(results) = NumYears
    /\ CompoundYear(CompoundYear(Float(1), Float(10)), Float(-10)) = << 99, 100 >>
    /\ CompoundYear(CompoundYear(Float(1), Float(-10)), Float(10)) = << 99, 100 >>

C13_Witness ==
    /\ pc = "finished"
    /\ \E a, b \in 1..Len(results) :
          /\ results[a][2][1] > 0
          /\ results[b][2][1] < 0

\* a call of backtest_year is in progress
InCall == pc \in { "files", "scan", "sched", "return", "done" }

\* C14: in every call of backtest_year, whatever the earlier calls did, the
\* scheduler starts from capital = initial_capital, next_available_date =
\* Jan 1 and no executed trade, every candidate comes from rows scanned in
\* this call, and the returned gain is that of this call's executed trades
\* on initial_capital.
C14_EachYearStartsFresh ==
    /\ (pc = "sched" /\ k = 1) =>
          /\ capital = Float(initial_capital)
          /\ next_available_date = JanFirst
          /\ executed_trades = << >>
    /\ InCall => 2 * Len(all_signals) <= rows_read
    /\ (InCall /\ all_signals = << >>) => df_map = {}
    /\ pc \in { "sched", "return", "done" } /\ all_signals # << >> =>
          /\ \A j \in 1..Len(executed_trades) : \E a \in 1..Len(all_signals) :
                executed_trades[j] = all_signals[a]
          /\ capital = RatMulInt(Growth(executed_trades), initial_capital)
    /\ initial_capital = 10000

C14_Witness ==
    /\ pc = "sched" /\ k = 1
    /\ results # << >>
    /\ results[1][2] # Float(0)
    /\ capital = Float(initial_capital)

(***************************************************************************)
(* Properties of calculate_bands and find_signals on one frame             *)
(***************************************************************************)
\* C15: for a frame of n >= period rows in the year, find_signals is handed
\* exactly n - (period - 1) rows, and no entry or exit happens on one of the
\* first period - 1 rows of the year, which are the rows dated up to
\* period - 1.
C15_BandsNeedFullWindow ==
    pc = "scan" =>
        /\ year_rows >= period
        /\ df_len = year_rows - (period - 1)
        /\ df_len >= 1
        /\ i <= df_len
        /\ i > 0 => today > period - 1
        /\ in_position => entry_date > period - 1
        /\ \A j \in 1..Len(trades) :
              /\ trades[j].buy_date > period - 1
              /\ trades[j].sell_date > period - 1

C15_Witness ==
    /\ pc = "scan" /\ year_rows = period + 2 /\ i = df_len
    /\ trades # << >>
    /\ trades[1].buy_date = period

\* C16: while STD has been 0 on every row scanned in a call, so that Lower =
\* SMA = Close, no position is opened and no candidate exists; a call that
\* scanned only such rows returns 0 with nothing executed.
C16_ZeroDeviationNeverEnters ==
    /\ \A c \in Closes, m \in Means, v \in Volumes :
          RollingFits(c, m, 0) =>
              /\ Lower(m, 0) = m /\ m = c
              /\ ~EntrySignal(c, Lower(m, 0), BelowLower(Lower(m, 0), c), v)
    /\ (InCall /\ zero_std) =>
          /\ ~in_position
          /\ trades = << >>
          /\ all_signals = << >>
          /\ pc \in { "files", "scan", "done" }
    /\ (pc = "done" /\ zero_std) =>
          /\ compound_return = Float(0)
          /\ executed_trades = << >>

C16_Witness ==
    /\ pc = "done" /\ zero_std
    /\ rows_read >= 2
    /\ df_map = {}
    /\ compound_return = Float(0)

\* find_signals has processed one more row
RowProcessed == pc = "scan" /\ pc' = "scan" /\ i' = i + 1

\* C17: a row opens a position if and only if find_signals is flat when it
\* processes the row and Close < Lower, (Lower - Close) / Close > 0.02 and
\* Volume > 100000, all strict; the position then starts at that row's date
\* and close, and a row processed while in position opens none.
C17_EntryIffFlatAndAllThree ==
    [][ RowProcessed =>
          /\ (~in_position /\ in_position') <=>
                 /\ ~in_position
                 /\ price' < lower'
                 /\ 50 * (lower' - price') > price'
                 /\ vol' > min_volume
          /\ (~in_position /\ in_position') =>
                 /\ entry_date' = today'
                 /\ entry_price' = price'
                 /\ trades' = trades
          /\ in_position =>
                 /\ entry_date' = entry_date
                 /\ entry_price' = entry_price ]_vars

C17_Witness ==
    /\ pc = "scan" /\ in_position /\ entry_date = today
    /\ price < lower /\ vol > min_volume
    /\ i >= 2

\* C18: a row processed while in position closes the trade if and only if
\* Close > SMA or the row is dated max_hold_days or more after the entry, so
\* the trade closes at the first such row after the entry row; the entry row
\* itself appends no trade, and every trade has buy_date < sell_date.
C18_ClosesAtFirstExitRow ==
    [][ RowProcessed =>
          /\ in_position =>
                IF price' > sma' \/ today' - entry_date >= max_hold_days
                THEN /\ Len(trades') = Len(trades) + 1
                     /\ SubSeq(trades', 1, Len(trades)) = trades
                     /\ Last(trades').buy_date = entry_date
                     /\ Last(trades').buy_price = entry_price
                     /\ Last(trades').sell_date = today'
                     /\ Last(trades').sell_price = price'
                     /\ Last(trades').days_held = today' - entry_date
                     /\ ~in_position'
                ELSE trades' = trades /\ in_position'
          /\ ~in_position => trades' = trades
          /\ \A j \in 1..Len(trades') :
                trades'[j].buy_date < trades'[j].sell_date ]_vars

C18_Witness ==
    /\ pc = "scan" /\ ~in_position /\ trades # << >>
    /\ Last(trades).sell_date = today
    /\ Last(trades).days_held = 2
    /\ price > sma

\* C19: within one scan the row that closes a position opens none, also when
\* it satisfies the entry condition; the next position starts on a later
\* row, so consecutive trades of the file have sell_date < buy_date
\* strictly, while the scheduler accepts a buy on the date of the last sell.
C19_ClosingRowOpensNothing ==
    /\ (pc = "scan" /\ trades # << >> /\ Last(trades).sell_date = today) =>
          ~in_position
    /\ (pc = "scan" /\ trades # << >> /\ in_position) =>
          Last(trades).sell_date < entry_date
    /\ \A a, b \in 1..Len(trades) :
          a < b => trades[a].sell_date < trades[b].buy_date
    /\ \A d \in 1..2 : CanExecute(d, d)

C19_Witness ==
    /\ JustClosed
    /\ Last(trades).days_held >= max_hold_days
    /\ price < lower
    /\ EntrySignal(price, lower, below, vol)

(***************************************************************************)
(* Properties of the scheduler's first step                                *)
(***************************************************************************)
\* C20: every candidate is bought on or after Jan 1 of the year, so the first
\* candidate of the sorted list, which has the earliest buy_date and among
\* those the highest Profit%, is always executed, and a call with at least
\* one candidate ends with at least one executed trade.
C20_FirstCandidateExecuted ==
    (Scheduled /\ all_signals # << >>) =>
        /\ \A j \in 1..Len(all_signals) :
              /\ all_signals[j].buy_date >= JanFirst
              /\ all_signals[1].buy_date <= all_signals[j].buy_date
              /\ all_signals[1].buy_date = all_signals[j].buy_date =>
                    ~RatLess(all_signals[1].pct, all_signals[j].pct)
        /\ k > 1 =>
              /\ executed_trades # << >>
              /\ executed_trades[1] = all_signals[1]
        /\ pc \in { "return", "done", "raised" } => executed_trades # << >>

C20_Witness ==
    /\ pc = "sched" /\ k = 2 /\ Len(all_signals) >= 2
    /\ executed_trades = << all_signals[1] >>
    /\ all_signals[1].buy_date = all_signals[2].buy_date
    /\ RatLess(all_signals[2].pct, all_signals[1].pct)
====
